---- MODULE Spec2Model ----
(***************************************************************************)
(* minitorch/datasets.py: six generators of labelled 2-D point sets, the   *)
(* point sampler they share and the registry that names them.              *)
(*                                                                         *)
(* A Python float is an IEEE-754 binary64.  It is modelled exactly: a      *)
(* float is a record [neg, mag, exp] standing for (-1)^neg * mag * 2^exp,  *)
(* with mag an odd natural number of at most 53 bits (or zero, exp 0),     *)
(* written as its base-2^13 limbs, least significant first, without        *)
(* leading zero limbs (so 0 is the empty sequence).  TLC's integers are 32 *)
(* bits wide, hence the limbs.  Every float operation the labelling rules  *)
(* use (comparison, sum, difference, product) is computed exactly and then *)
(* rounded to 53 significant bits, ties to even, as the hardware does.     *)
(* All values that arise lie between 2^-107 and 2 in magnitude, where      *)
(* binary64 neither overflows nor underflows, so the exponent range is not *)
(* modelled.                                                               *)
(***************************************************************************)
EXTENDS Integers, Sequences, FiniteSets

------------------------------------------------------------------------------
(* Natural numbers as limb sequences *)

LimbBits == 13
Base == 2^LimbBits
Mant == 53

Max(a, b) == IF a > b THEN a ELSE b

RECURSIVE Norm(_)
Norm(a) ==
  IF a = <<>> THEN a
  ELSE IF a[Len(a)] = 0 THEN Norm(SubSeq(a, 1, Len(a) - 1)) ELSE a

Limb(a, i) == IF i >= 1 /\ i <= Len(a) THEN a[i] ELSE 0

RECURSIVE Carry(_, _)
Carry(cols, c) ==
  IF cols = <<>>
  THEN IF c = 0 THEN <<>> ELSE <<c % Base>> \o Carry(<<>>, c \div Base)
  ELSE LET t == cols[1] + c
       IN  <<t % Base>> \o Carry(Tail(cols), t \div Base)

FromInt(n) == Norm(Carry(<<n>>, 0))

BigAdd(a, b) ==
  Norm(Carry([i \in 1..Max(Len(a), Len(b)) |-> Limb(a, i) + Limb(b, i)], 0))

RECURSIVE Borrow(_, _, _, _)
Borrow(a, b, i, br) ==
  IF i > Len(a) THEN <<>>
  ELSE LET d == a[i] - Limb(b, i) - br
       IN  IF d < 0 THEN <<d + Base>> \o Borrow(a, b, i + 1, 1)
                    ELSE <<d>> \o Borrow(a, b, i + 1, 0)

\* a - b for a >= b
BigSub(a, b) == Norm(Borrow(a, b, 1, 0))

\* The sum of a[i] * b[c + 1 - i] over the i from lo to hi
RECURSIVE ColSum(_, _, _, _, _)
ColSum(a, b, c, lo, hi) ==
  IF lo > hi THEN 0 ELSE a[lo] * b[c + 1 - lo] + ColSum(a, b, c, lo + 1, hi)

BigMul(a, b) ==
  IF a = <<>> \/ b = <<>> THEN <<>>
  ELSE Norm(Carry([c \in 1..(Len(a) + Len(b) - 1) |->
                     ColSum(a, b, c, Max(1, c + 1 - Len(b)),
                            IF c < Len(a) THEN c ELSE Len(a))], 0))

BigLess(a, b) ==
  IF Len(a) # Len(b) THEN Len(a) < Len(b)
  ELSE \E i \in 1..Len(a) :
          a[i] < b[i] /\ \A j \in (i + 1)..Len(a) : a[j] = b[j]

RECURSIVE BitLenSmall(_)
BitLenSmall(n) == IF n = 0 THEN 0 ELSE 1 + BitLenSmall(n \div 2)

BitLen(a) ==
  IF a = <<>> THEN 0 ELSE LimbBits * (Len(a) - 1) + BitLenSmall(a[Len(a)])

ShiftLeft(a, s) ==
  IF a = <<>> THEN <<>>
  ELSE [i \in 1..(s \div LimbBits) |-> 0] \o BigMul(a, <<2^(s % LimbBits)>>)

ShiftRight(a, s) ==
  LET k == s \div LimbBits
      b == s % LimbBits
      n == Len(a) - k
  IN  IF n <= 0 THEN <<>>
      ELSE Norm([i \in 1..n |->
                   (Limb(a, i + k) \div 2^b)
                   + (Limb(a, i + k + 1) % 2^b) * 2^(LimbBits - b)])

IsOdd(a) == a # <<>> /\ a[1] % 2 = 1

One == FromInt(1)

\* The nearest number with at most 53 significant bits, ties to even.
Round53(n) ==
  LET s == BitLen(n) - Mant
  IN  IF s <= 0 THEN n
      ELSE LET q    == ShiftRight(n, s)
               lo   == ShiftLeft(q, s)
               r    == BigSub(n, lo)
               half == ShiftLeft(One, s - 1)
               up   == BigLess(half, r) \/ (r = half /\ IsOdd(q))
           IN  IF up THEN ShiftLeft(BigAdd(q, One), s) ELSE lo

------------------------------------------------------------------------------
(* binary64 operations *)

\* The number of trailing zero bits of a > 0.
RECURSIVE TrailSmall(_)
TrailSmall(n) == IF n % 2 = 1 THEN 0 ELSE 1 + TrailSmall(n \div 2)

RECURSIVE TrailLimbs(_, _)
TrailLimbs(a, i) == IF a[i] # 0 THEN i - 1 ELSE TrailLimbs(a, i + 1)

Trail(a) ==
  LET k == TrailLimbs(a, 1) IN LimbBits * k + TrailSmall(a[k + 1])

\* The float (-1)^neg * n * 2^e in its canonical form, n of at most 53 bits.
Float(neg, n, e) ==
  IF n = <<>> THEN [neg |-> FALSE, mag |-> <<>>, exp |-> 0]
  ELSE LET t == Trail(n)
       IN  [neg |-> neg, mag |-> ShiftRight(n, t), exp |-> e + t]

Min(a, b) == IF a < b THEN a ELSE b

\* x's magnitude in units of 2^e, for e <= x.exp
Aligned(x, e) == ShiftLeft(x.mag, x.exp - e)

FAdd(x, y) ==
  LET e == Min(x.exp, y.exp)
      a == Aligned(x, e)
      b == Aligned(y, e)
  IN  IF x.neg = y.neg THEN Float(x.neg, Round53(BigAdd(a, b)), e)
      ELSE IF BigLess(a, b) THEN Float(y.neg, Round53(BigSub(b, a)), e)
      ELSE Float(x.neg, Round53(BigSub(a, b)), e)

FNeg(x) == [x EXCEPT !.neg = ~x.neg /\ x.mag # <<>>]

FSub(x, y) == FAdd(x, FNeg(y))

FMul(x, y) ==
  Float(x.neg # y.neg, Round53(BigMul(x.mag, y.mag)), x.exp + y.exp)

FLess(x, y) ==
  LET e == Min(x.exp, y.exp)
      a == Aligned(x, e)
      b == Aligned(y, e)
  IN  IF x.neg # y.neg THEN x.neg
      ELSE IF x.neg THEN BigLess(b, a) ELSE BigLess(a, b)

FGreater(x, y) == FLess(y, x)

\* The quotient limbs (most significant last) and the remainder of a
\* divided by the small number d, from limb i down.
RECURSIVE DivLimbs(_, _, _, _)
DivLimbs(a, d, i, r) ==
  IF i = 0 THEN [q |-> <<>>, r |-> r]
  ELSE LET t    == r * Base + a[i]
           rest == DivLimbs(a, d, i - 1, t % d)
       IN  [q |-> Append(rest.q, t \div d), r |-> rest.r]

\* The float a decimal literal num/den denotes: the binary64 nearest to it.
\* The quotient is cut after GuardBits fraction bits and a sticky bit tells
\* whether anything was cut off, so the rounding sees the exact value.
GuardBits == 2 * Mant + LimbBits

Literal(num, den) ==
  LET n  == ShiftLeft(FromInt(num), GuardBits)
      dv == DivLimbs(n, den, Len(n), 0)
      q  == ShiftLeft(Norm(dv.q), 1)
  IN  Float(FALSE, Round53(IF dv.r = 0 THEN q ELSE BigAdd(q, One)),
            0 - (GuardBits + 1))

Lit0_5 == Literal(5, 10)
Lit0_2 == Literal(2, 10)
Lit0_8 == Literal(8, 10)
Lit0_1 == Literal(1, 10)

------------------------------------------------------------------------------
(* The process-wide random source *)

\* The natural number hi * 10^8 + lo
K(hi, lo) == BigAdd(BigMul(FromInt(hi), FromInt(100000000)), FromInt(lo))

\* random.random() returns k / 2^53 for a 53-bit natural number k.
R(k) == Float(FALSE, k, 0 - Mant)

Ulp      == One
Quarter  == ShiftLeft(One, Mant - 2)
Eighth   == ShiftLeft(One, Mant - 3)
HalfK    == ShiftLeft(One, Mant - 1)
Top      == BigSub(ShiftLeft(One, Mant), One)
Below0_2 == K(18014398, 50948198)
At0_8    == K(72057594, 3792794)
OnCircle == K(62478362, 62849682)
OnCircleRounded == K(71199545, 80589275)

\* The streams the source can produce, one per seed: a stream repeats its
\* tape.  Tapes 1 and 2 hold short dyadic values; the others hold the values
\* next to the literals of the labelling rules.
Tapes ==
  << << R(Quarter), R(BigAdd(HalfK, Quarter)), R(HalfK), R(HalfK),
        R(BigAdd(HalfK, Quarter)), R(Quarter), R(<<>>), R(<<>>) >>,
     << R(Quarter), R(Quarter), R(Eighth), R(Quarter),
        R(BigSub(ShiftLeft(One, Mant), Eighth)), R(HalfK),
        R(Quarter), R(Quarter) >>,
     << R(BigSub(HalfK, Ulp)), R(BigAdd(HalfK, Ulp)),
        R(BigAdd(HalfK, Ulp)), R(BigSub(HalfK, Ulp)),
        R(BigSub(HalfK, Ulp)), R(Ulp),
        R(Quarter), R(BigSub(Quarter, Ulp)) >>,
     << R(Below0_2), R(HalfK), R(BigAdd(Below0_2, Ulp)), R(HalfK),
        R(BigSub(At0_8, Ulp)), R(<<>>), R(At0_8), R(Top) >>,
     << R(BigAdd(At0_8, Ulp)), R(HalfK), R(Top), R(BigAdd(Ulp, Ulp)),
        R(Top), R(Top), R(Ulp), R(BigSub(HalfK, Ulp)) >>,
     << R(OnCircle), R(Quarter), R(BigAdd(OnCircle, Ulp)), R(Quarter),
        R(BigSub(OnCircle, Ulp)), R(Quarter),
        R(OnCircleRounded), R(BigAdd(Quarter, Eighth)) >>,
     << R(BigAdd(OnCircleRounded, Ulp)), R(BigAdd(Quarter, Eighth)),
        R(OnCircleRounded), R(BigAdd(HalfK, Eighth)),
        R(Quarter), R(OnCircle), R(HalfK), R(OnCircle) >> >>

PlainTapes == {Tapes[1], Tapes[2]}
AllTapes == {Tapes[s] : s \in 1..Len(Tapes)}

\* random.random(): the next value of the stream, and the source advanced.
\* The source is its tape and the number of values it has given.
random(rng) ==
  [val |-> rng.tape[(rng.pos % Len(rng.tape)) + 1],
   rng |-> [rng EXCEPT !.pos = @ + 1]]

------------------------------------------------------------------------------
(* The functions of the module.  w is the world a call runs in: the heap of
   list objects (a list's identity is its index) and the random source.  A
   call returns the world it leaves and its result. *)

\* range(lo, hi) with hi included
Range_incl(lo, hi) == [j \in 1..Max(hi - lo + 1, 0) |-> lo + j - 1]

\* range(lo, hi)
Range(lo, hi) == [j \in 1..Max(hi - lo, 0) |-> lo + j - 1]

\* [v] * (n + 1)
Repeat_more(v, n) == [j \in 1..Max(n + 1, 0) |-> v]

\* [v] * n
Repeat(v, n) == [j \in 1..Max(n, 0) |-> v]

\* the loop running while i <= N
RECURSIVE make_pts_loop_le(_, _, _, _)
make_pts_loop_le(rng, X, i, N) ==
  IF i > N THEN [rng |-> rng, X |-> X]
  ELSE LET d1 == random(rng)
           d2 == random(d1.rng)
       IN  make_pts_loop_le(d2.rng, Append(X, <<d1.val, d2.val>>), i + 1, N)

\* the loop drawing one value for both coordinates
RECURSIVE make_pts_loop_once(_, _, _, _)
make_pts_loop_once(rng, X, i, N) ==
  IF i >= N THEN [rng |-> rng, X |-> X]
  ELSE LET d1 == random(rng)
       IN  make_pts_loop_once(d1.rng, Append(X, <<d1.val, d1.val>>), i + 1, N)

\* for i in range(N): x_1 = random.random(); x_2 = random.random();
\* X.append((x_1, x_2))
RECURSIVE make_pts_loop(_, _, _, _)
make_pts_loop(rng, X, i, N) ==
  IF i >= N THEN [rng |-> rng, X |-> X]
  ELSE LET d1 == random(rng)
           d2 == random(d1.rng)
       IN  make_pts_loop(d2.rng, Append(X, <<d1.val, d2.val>>), i + 1, N)

\* make_pts filling the list made last instead of a new one
make_pts_reuse(w, N) ==
  LET r == make_pts_loop(w.rng, <<>>, 0, N)
  IN  IF w.heap = <<>>
      THEN [heap |-> <<r.X>>, rng |-> r.rng, raised |-> "none", ret |-> 1]
      ELSE [heap |-> [w.heap EXCEPT ![Len(w.heap)] = r.X], rng |-> r.rng,
            raised |-> "none", ret |-> Len(w.heap)]

\* make_pts looping over range(abs(N))
make_pts_abs(w, N) ==
  LET r == make_pts_loop(w.rng, <<>>, 0, IF N < 0 THEN 0 - N ELSE N)
  IN  [heap |-> Append(w.heap, r.X), rng |-> r.rng, raised |-> "none",
       ret |-> Len(w.heap) + 1]

make_pts(w, N) ==
  LET r == make_pts_loop(w.rng, <<>>, 0, N)
  IN  [heap |-> Append(w.heap, r.X), rng |-> r.rng, raised |-> "none",
       ret |-> Len(w.heap) + 1]

Graph(N, X, y) == [N |-> N, X |-> X, y |-> y]

\* return Graph(N, X, y) for the list X that make_pts left as m.ret and a new
\* list y
Returned(m, N, y) ==
  [heap |-> Append(m.heap, y), rng |-> m.rng, raised |-> "none",
   ret |-> Graph(N, m.ret, Len(m.heap) + 1)]

\* simple's rule with -1 for the other class
simple_y_sign(p) == IF FLess(p[1], Lit0_5) THEN 1 ELSE -1

simple_y(p) == IF FLess(p[1], Lit0_5) THEN 1 ELSE 0

simple(w, N) ==
  LET m == make_pts(w, N)
      X == m.heap[m.ret]
  IN  Returned(m, N, [i \in 1..Len(X) |-> simple_y(X[i])])

diag_y(p) == IF FLess(FAdd(p[1], p[2]), Lit0_5) THEN 1 ELSE 0

diag(w, N) ==
  LET m == make_pts(w, N)
      X == m.heap[m.ret]
  IN  Returned(m, N, [i \in 1..Len(X) |-> diag_y(X[i])])

split_y(p) ==
  IF FLess(p[1], Lit0_2) \/ FGreater(p[1], Lit0_8) THEN 1 ELSE 0

split(w, N) ==
  LET m == make_pts(w, N)
      X == m.heap[m.ret]
  IN  Returned(m, N, [i \in 1..Len(X) |-> split_y(X[i])])

xor_y(p) ==
  IF \/ FLess(p[1], Lit0_5) /\ FGreater(p[2], Lit0_5)
     \/ FGreater(p[1], Lit0_5) /\ FLess(p[2], Lit0_5)
  THEN 1 ELSE 0

xor(w, N) ==
  LET m == make_pts(w, N)
      X == m.heap[m.ret]
  IN  Returned(m, N, [i \in 1..Len(X) |-> xor_y(X[i])])

\* x1 * x1 + x2 * x2 >= 0.1
circle_test_ge(x1, x2) == ~FLess(FAdd(FMul(x1, x1), FMul(x2, x2)), Lit0_1)

\* x1 * x1 + x2 * x2 > 0.1 for the shifted coordinates x1, x2
circle_test(x1, x2) == FGreater(FAdd(FMul(x1, x1), FMul(x2, x2)), Lit0_1)

circle_y(p) ==
  IF circle_test(FSub(p[1], Lit0_5), FSub(p[2], Lit0_5)) THEN 1 ELSE 0

circle(w, N) ==
  LET m == make_pts(w, N)
      X == m.heap[m.ret]
  IN  Returned(m, N, [i \in 1..Len(X) |-> circle_y(X[i])])

\* float(i) / (N // 2): the quotient, or the division by zero.  math.cos and
\* math.sin are not computed: a spiral coordinate is the term that names it,
\* curve(sign * 10.0 * (i / half)) + 0.5 with curve the local x or y.
TrueDiv(i, half) == [zero |-> half = 0, i |-> i, half |-> half]

spiral_x(sign, t) == [curve |-> "x", sign |-> sign, i |-> t.i, half |-> t.half]

spiral_y(sign, t) == [curve |-> "y", sign |-> sign, i |-> t.i, half |-> t.half]

NoGraph == Graph(0, 0, 0)

spiral(w, N) ==
  LET half == N \div 2
      is   == Range(5 + 0, 5 + half)
      ts   == [j \in 1..Len(is) |-> TrueDiv(is[j], half)]
      A    == [j \in 1..Len(is) |-> <<spiral_x(1, ts[j]), spiral_y(1, ts[j])>>]
      B    == [j \in 1..Len(is) |-> <<spiral_y(-1, ts[j]), spiral_x(-1, ts[j])>>]
      y2   == Repeat(0, half) \o Repeat(1, half)
  IN  IF \E j \in 1..Len(ts) : ts[j].zero
      THEN [heap |-> w.heap, rng |-> w.rng, raised |-> "ZeroDivisionError",
            ret |-> NoGraph]
      ELSE [heap |-> w.heap \o <<A \o B, y2>>, rng |-> w.rng,
            raised |-> "none",
            ret |-> Graph(N, Len(w.heap) + 1, Len(w.heap) + 2)]

datasets0 ==
  [name \in {"Simple", "Diag", "Split", "Xor", "Circle", "Spiral"} |->
     CASE name = "Simple" -> "simple"
       [] name = "Diag"   -> "diag"
       [] name = "Split"  -> "split"
       [] name = "Xor"    -> "xor"
       [] name = "Circle" -> "circle"
       [] name = "Spiral" -> "spiral"]

\* d.get(name): no error for a missing key
GetItem_default(d, name) ==
  IF name \in DOMAIN d THEN [raised |-> "none", fn |-> d[name]]
  ELSE [raised |-> "none", fn |-> "none"]

\* d[name]
GetItem(d, name) ==
  IF name \in DOMAIN d THEN [raised |-> "none", fn |-> d[name]]
  ELSE [raised |-> "KeyError", fn |-> "none"]

------------------------------------------------------------------------------
(* The state machine *)

MaxN     == 2
MaxCalls == 3
NegN     == 2
WideN    == 4
OneCalls == 1

VARIABLES
  heap,      \* the list objects made so far, by identity
  rng,       \* the random source: its seed and how many values it has given
  datasets,  \* the registry
  log,       \* the calls made, in order, each with what it returned
  got,       \* the outcome of the latest registry lookup
  nlook      \* the number of lookups made

vars == <<heap, rng, datasets, log, got, nlook>>

NoLookup == [name |-> "", raised |-> "none", fn |-> "none"]

Start(tapes) ==
  /\ heap = <<>>
  /\ rng \in [tape : tapes, pos : {0}]
  /\ datasets = datasets0
  /\ log = <<>>
  /\ got = NoLookup
  /\ nlook = 0

Init == Start(PlainTapes)

InitOne == Start(AllTapes)

World == [heap |-> heap, rng |-> rng]

\* A call of fn(N) that left the world r and returned r.ret
Return(fn, N, kind, r) ==
  /\ heap' = r.heap
  /\ rng' = r.rng
  /\ log' = Append(log, [fn |-> fn, arg |-> N, start |-> rng.pos,
                         stop |-> r.rng.pos, raised |-> r.raised,
                         kind |-> IF r.raised = "none" THEN kind ELSE "none",
                         ret |-> IF kind = "list" THEN Graph(0, r.ret, 0)
                                 ELSE r.ret])
  /\ UNCHANGED <<datasets, got, nlook>>

Room(limit) == Len(log) + nlook < limit

CallMakePts(N, limit) ==
  Room(limit) /\ Return("make_pts", N, "list", make_pts(World, N))

CallSimple(N, limit) ==
  Room(limit) /\ Return("simple", N, "Graph", simple(World, N))

CallDiag(N, limit) ==
  Room(limit) /\ Return("diag", N, "Graph", diag(World, N))

CallSplit(N, limit) ==
  Room(limit) /\ Return("split", N, "Graph", split(World, N))

CallXor(N, limit) ==
  Room(limit) /\ Return("xor", N, "Graph", xor(World, N))

CallCircle(N, limit) ==
  Room(limit) /\ Return("circle", N, "Graph", circle(World, N))

CallSpiral(N, limit) ==
  Room(limit) /\ Return("spiral", N, "Graph", spiral(World, N))

Names == DOMAIN datasets0 \cup {"NotARule", "simple"}

Lookup(name, limit) ==
  /\ Room(limit)
  /\ LET r == GetItem(datasets, name)
     IN  got' = [name |-> name, raised |-> r.raised, fn |-> r.fn]
  /\ nlook' = nlook + 1
  /\ UNCHANGED <<heap, rng, datasets, log>>

Next ==
  \/ \E N \in 1..MaxN : CallMakePts(N, MaxCalls)
  \/ \E N \in 1..MaxN : CallSimple(N, MaxCalls)
  \/ \E N \in 1..MaxN : CallDiag(N, MaxCalls)
  \/ \E N \in 1..MaxN : CallSplit(N, MaxCalls)
  \/ \E N \in 1..MaxN : CallXor(N, MaxCalls)
  \/ \E N \in 1..MaxN : CallCircle(N, MaxCalls)
  \/ \E N \in 1..MaxN : CallSpiral(N, MaxCalls)
  \/ \E name \in Names : Lookup(name, MaxCalls)

Spec == Init /\ [][Next]_vars

NextOne ==
  \/ \E N \in (0 - NegN)..WideN : CallMakePts(N, OneCalls)
  \/ \E N \in (0 - NegN)..WideN : CallSimple(N, OneCalls)
  \/ \E N \in (0 - NegN)..WideN : CallDiag(N, OneCalls)
  \/ \E N \in (0 - NegN)..WideN : CallSplit(N, OneCalls)
  \/ \E N \in (0 - NegN)..WideN : CallXor(N, OneCalls)
  \/ \E N \in (0 - NegN)..WideN : CallCircle(N, OneCalls)
  \/ \E N \in (0 - NegN)..WideN : CallSpiral(N, OneCalls)
  \/ \E name \in Names : Lookup(name, OneCalls)

SpecOne == InitOne /\ [][NextOne]_vars
------------------------------------------------------------------------------
(* What the claims speak of *)

Sampling == {"simple", "diag", "split", "xor", "circle"}

Samplers == Sampling \cup {"make_pts"}

\* the points and the labels a call returned
Pts(e) == heap[e.ret.X]
Lbl(e) == heap[e.ret.y]

\* the n-th value of the source's stream, counted from 0
StreamAt(n) == rng.tape[(n % Len(rng.tape)) + 1]

\* the point the j-th round of a call's sampling loop draws
Sampled(e, j) == <<StreamAt(e.start + 2 * (j - 1)), StreamAt(e.start + 2 * (j - 1) + 1)>>

\* x * 2^53, a natural number for every value random.random() returns
Kof(x) == Aligned(x, 0 - Mant)

\* The rules as the documentation states them, on the exact values: the
\* sums are not rounded, and 0.2 and 0.8 are the floats the literals denote:
\* Below0_2 / 2^53 is the largest multiple of 2^-53 below the float 0.2, and
\* At0_8 / 2^53 is the float 0.8.  The circle's squared radius is the float
\* the expression computes.
RuleSimple(p) == BigLess(Kof(p[1]), HalfK)

RuleDiag(p) == BigLess(BigAdd(Kof(p[1]), Kof(p[2])), HalfK)

RuleSplit(p) ==
  \/ BigLess(Kof(p[1]), BigAdd(Below0_2, One))
  \/ BigLess(At0_8, Kof(p[1]))

RuleXor(p) ==
  \/ BigLess(Kof(p[1]), HalfK) /\ BigLess(HalfK, Kof(p[2]))
  \/ BigLess(HalfK, Kof(p[1])) /\ BigLess(Kof(p[2]), HalfK)

Square(x) == FMul(x, x)

Radius2(p) == FAdd(Square(FSub(p[1], Lit0_5)), Square(FSub(p[2], Lit0_5)))

RuleCircle(p) == ~(FLess(Radius2(p), Lit0_1) \/ Radius2(p) = Lit0_1)

RuleLabel(fn, p) ==
  IF CASE fn = "simple" -> RuleSimple(p)
       [] fn = "diag"   -> RuleDiag(p)
       [] fn = "split"  -> RuleSplit(p)
       [] fn = "xor"    -> RuleXor(p)
       [] fn = "circle" -> RuleCircle(p)
  THEN 1 ELSE 0

OnBoundary(fn, p) ==
  CASE fn = "simple" -> p[1] = Lit0_5
    [] fn = "diag"   -> FAdd(p[1], p[2]) = Lit0_5
    [] fn = "split"  -> p[1] = Lit0_2 \/ p[1] = Lit0_8
    [] fn = "xor"    -> p[1] = Lit0_5 \/ p[2] = Lit0_5
    [] fn = "circle" -> Radius2(p) = Lit0_1

RECURSIVE SampledTotal(_)
SampledTotal(l) ==
  IF l = <<>> THEN 0
  ELSE (IF l[1].fn \in Samplers /\ l[1].arg >= 0 THEN l[1].arg ELSE 0)
       + SampledTotal(Tail(l))

SixNames == {"Simple", "Diag", "Split", "Xor", "Circle", "Spiral"}

SameRule(name) ==
  CASE name = "Simple" -> "simple"
    [] name = "Diag"   -> "diag"
    [] name = "Split"  -> "split"
    [] name = "Xor"    -> "xor"
    [] name = "Circle" -> "circle"
    [] name = "Spiral" -> "spiral"
    [] OTHER           -> "none"

------------------------------------------------------------------------------
(* The claims *)

\* C1: for every N >= 0 and each of the six generators, the returned Dataset
\* has as many points as labels, and that many is its count field N.
C1_LengthsEqualCount ==
  \A i \in 1..Len(log) :
    (log[i].kind = "Graph" /\ log[i].arg >= 0) =>
      /\ Len(Pts(log[i])) = log[i].ret.N
      /\ Len(Lbl(log[i])) = log[i].ret.N

\* C2: for every N >= 0, make_pts(N) returns exactly N points without error
\* (none when N = 0), and each of the five sampling generators returns a
\* Dataset with N points and N labels.
C2_SampledLengths ==
  \A i \in 1..Len(log) :
    (log[i].fn \in Samplers /\ log[i].arg >= 0) =>
      /\ log[i].raised = "none"
      /\ Len(Pts(log[i])) = log[i].arg
      /\ log[i].fn \in Sampling =>
           log[i].kind = "Graph" /\ Len(Lbl(log[i])) = log[i].arg

C2_Witness ==
  \E i \in 1..Len(log) :
    /\ log[i].fn = "simple" /\ log[i].arg = 0
    /\ Pts(log[i]) = <<>> /\ Lbl(log[i]) = <<>>

\* C3: in a Dataset of a sampling generator, points[j] is the j-th sampled
\* point unchanged and labels[j] is the rule's value at points[j] alone: 1
\* where the rule's strict inequality holds, 0 elsewhere, so 0 on every
\* decision boundary; identical points get identical labels.
C3_LabelsFollowRule ==
  \A i \in 1..Len(log) :
    log[i].fn \in Sampling =>
      \A j \in 1..Len(Pts(log[i])) :
        /\ Pts(log[i])[j] = Sampled(log[i], j)
        /\ Lbl(log[i])[j] = RuleLabel(log[i].fn, Pts(log[i])[j])
        /\ OnBoundary(log[i].fn, Pts(log[i])[j]) => Lbl(log[i])[j] = 0
        /\ \A k \in 1..Len(Pts(log[i])) :
             Pts(log[i])[k] = Pts(log[i])[j] => Lbl(log[i])[k] = Lbl(log[i])[j]

C3_Witness ==
  \E i \in 1..Len(log) :
    /\ log[i].fn = "circle"
    /\ \E j \in 1..Len(Pts(log[i])) :
         /\ Radius2(Pts(log[i])[j]) = Lit0_1
         /\ Lbl(log[i])[j] = 0
    /\ \E j \in 1..Len(Pts(log[i])) : Lbl(log[i])[j] = 1

\* C4: for every N >= 0, spiral(N) returns 2 * (N // 2) points and as many
\* labels, the first N // 2 labels 0 and the last N // 2 labels 1 (0, 0, 1, 1
\* for N = 4); for odd N that is N - 1 entries.
C4_SpiralArms ==
  \A i \in 1..Len(log) :
    (log[i].fn = "spiral" /\ log[i].arg >= 0) =>
      LET n == log[i].arg
          h == (n - (n % 2)) \div 2
      IN  /\ log[i].kind = "Graph"
          /\ Len(Pts(log[i])) = 2 * h
          /\ Len(Lbl(log[i])) = 2 * h
          /\ \A j \in 1..(2 * h) : Lbl(log[i])[j] = IF j <= h THEN 0 ELSE 1
          /\ n = 4 => Lbl(log[i]) = <<0, 0, 1, 1>>
          /\ n % 2 = 1 => Len(Pts(log[i])) = n - 1

C4_Witness ==
  \E i \in 1..Len(log) :
    /\ log[i].fn = "spiral" /\ log[i].arg = 3
    /\ Len(Pts(log[i])) = 2 /\ Lbl(log[i]) = <<0, 1>>

\* C5: every label any generator returns, for any N, is the integer 0 or the
\* integer 1.
C5_LabelsBinary ==
  \A i \in 1..Len(log) :
    log[i].kind = "Graph" =>
      \A j \in 1..Len(Lbl(log[i])) : Lbl(log[i])[j] \in {0, 1}

C5_Witness ==
  \E i \in 1..Len(log) :
    /\ log[i].fn = "simple"
    /\ \E j \in 1..Len(Lbl(log[i])) : Lbl(log[i])[j] = 0
    /\ \E j \in 1..Len(Lbl(log[i])) : Lbl(log[i])[j] = 1

\* C6: the registry has exactly the six names; looking up one of them gives
\* the generator of the same rule; looking up any other name fails with a
\* lookup error (KeyError), gives no generator and makes no Dataset.
C6_LookupState ==
  /\ DOMAIN datasets = SixNames
  /\ \A name \in SixNames : datasets[name] = SameRule(name)
  /\ nlook > 0 =>
       IF got.name \in SixNames
       THEN got.raised = "none" /\ got.fn = SameRule(got.name)
       ELSE got.raised = "KeyError" /\ got.fn = "none"

C6_LookupStep == nlook' # nlook => (log' = log /\ heap' = heap /\ rng' = rng)

C6_Registry == [](C6_LookupState) /\ [][C6_LookupStep]_vars

C6_Witness ==
  /\ got.name = "NotARule" /\ got.raised = "KeyError" /\ got.fn = "none"
  /\ Len(log) = 2

\* C7: every Dataset returned earlier keeps its count, points and labels, no
\* two returned Datasets share a points or labels list, and the registry
\* keeps its six entries: a call changes nothing that existed before it
\* except the position of the random source.
C7_NoSharing ==
  /\ \A i \in 1..Len(log) :
       log[i].kind = "Graph" =>
         /\ log[i].ret.X # log[i].ret.y
         /\ \A k \in 1..Len(log) :
              (k # i /\ log[k].kind = "Graph") =>
                {log[i].ret.X, log[i].ret.y} \cap {log[k].ret.X, log[k].ret.y} = {}
  /\ DOMAIN datasets = SixNames
  /\ \A name \in SixNames : datasets[name] = SameRule(name)

C7_Kept ==
  /\ \A i \in 1..Len(log) : log'[i] = log[i]
  /\ \A id \in 1..Len(heap) : heap'[id] = heap[id]
  /\ datasets' = datasets
  /\ rng'.tape = rng.tape

C7_Frame == [](C7_NoSharing) /\ [][C7_Kept]_vars

C7_Witness ==
  /\ Len(log) = 3
  /\ log[1].fn = "xor" /\ log[1].arg = 2
  /\ log[2].fn = "spiral" /\ log[2].arg = 2
  /\ log[3].fn = "xor" /\ log[3].arg = 2
  /\ log[1].ret.X # log[3].ret.X
  /\ Len(Pts(log[1])) = 2 /\ Len(Lbl(log[1])) = 2

\* C8: spiral(0) and spiral(1) raise no division by zero: the index range is
\* empty, no quotient is taken, and the Dataset has no points, no labels and
\* the N passed in as its count.
C8_SpiralSmall ==
  \A i \in 1..Len(log) :
    (log[i].fn = "spiral" /\ log[i].arg \in {0, 1}) =>
      /\ log[i].raised = "none"
      /\ log[i].kind = "Graph"
      /\ Pts(log[i]) = <<>>
      /\ Lbl(log[i]) = <<>>
      /\ log[i].ret.N = log[i].arg

C8_Witness ==
  \E i \in 1..Len(log) :
    /\ log[i].fn = "spiral" /\ log[i].arg = 1
    /\ log[i].raised = "none" /\ log[i].ret.N = 1
    /\ Pts(log[i]) = <<>>

\* C9: for a negative N no generator and not make_pts raises an error: the
\* points and labels are empty, no random value is drawn, and the Dataset
\* carries the negative N as its count, which differs from its length 0.
C9_NegativeN ==
  \A i \in 1..Len(log) :
    log[i].arg < 0 =>
      /\ log[i].raised = "none"
      /\ Pts(log[i]) = <<>>
      /\ log[i].stop = log[i].start
      /\ log[i].fn # "make_pts" =>
           /\ log[i].kind = "Graph"
           /\ Lbl(log[i]) = <<>>
           /\ log[i].ret.N = log[i].arg
           /\ Len(Pts(log[i])) # log[i].ret.N

C9_Witness ==
  \E i \in 1..Len(log) :
    /\ log[i].fn = "circle" /\ log[i].arg = 0 - NegN
    /\ log[i].ret.N = 0 - NegN /\ Pts(log[i]) = <<>>

\* C10: a call of make_pts(N) or of a sampling generator with N >= 0 takes
\* exactly 2N consecutive values of the stream, points[j] being the pair of
\* the j-th two of them in order; spiral takes none.  So the values taken
\* so far number twice the sum of N over those calls, and two calls of
\* spiral with the same N return equal Datasets whatever was called between.
C10_StreamUse ==
  /\ \A i \in 1..Len(log) :
       /\ log[i].start = IF i = 1 THEN 0 ELSE log[i - 1].stop
       /\ (log[i].fn \in Samplers /\ log[i].arg >= 0) =>
            /\ log[i].stop = log[i].start + 2 * log[i].arg
            /\ \A j \in 1..log[i].arg : Pts(log[i])[j] = Sampled(log[i], j)
       /\ log[i].fn = "spiral" => log[i].stop = log[i].start
  /\ rng.pos = 2 * SampledTotal(log)
  /\ \A i, k \in 1..Len(log) :
       (log[i].fn = "spiral" /\ log[k].fn = "spiral" /\ log[i].arg = log[k].arg) =>
         /\ log[i].ret.N = log[k].ret.N
         /\ Pts(log[i]) = Pts(log[k])
         /\ Lbl(log[i]) = Lbl(log[k])

C10_Witness ==
  /\ Len(log) = 3
  /\ log[1].fn = "spiral" /\ log[1].arg = 2
  /\ log[2].fn = "diag" /\ log[2].arg = 2
  /\ log[3].fn = "spiral" /\ log[3].arg = 2
  /\ rng.pos = 4
  /\ Pts(log[1]) = Pts(log[3]) /\ Len(Pts(log[3])) = 2

====
